---- MODULE Spec2Model ----
(***************************************************************************)
(* A model of the Warp Preview log monitor                                 *)
(* (src/warp_log_inspector/warp_monitor.py): the line parser, the bounded  *)
(* buffers and counters of LogMonitor, the file tailer, the process        *)
(* scanner and the three loops of the monitor with the signal handler.     *)
(*                                                                         *)
(* A log line is a sequence of tokens.  A token is a record [t, c]:        *)
(*   t = "ts"  a timestamp, c its time (a number);                         *)
(*   t = "br"  a bracketed group "[c]";                                    *)
(*   t = "wd"  a word c;                                                   *)
(*   t = "ws"  white space.                                                *)
(* The log file is a sequence of chunks [id, toks, nl]: the text of one    *)
(* write of the producer, nl telling whether it ends with a newline.       *)
(***************************************************************************)
EXTENDS Integers, Sequences, FiniteSets, TLC

VARIABLES
    running,         \* LogMonitor.running
    stats,           \* LogMonitor.stats (a defaultdict(int): absent = 0)
    recent_entries,  \* LogMonitor.recent_entries, deque(maxlen=1000)
    error_buffer,    \* LogMonitor.error_buffer, deque(maxlen=100)
    errors_file,     \* the records of errors.json, oldest first
    monitor_log,     \* the records of monitor.log, oldest first
    stats_file,      \* stats.json: its state and document
    process_file,    \* processes.json: its state and its pids
    processes,       \* ProcessMonitor.processes: pid -> status ("absent" = no key)
    log,             \* the chunks of the file at PREVIEW_LOG's path
    oldlog,          \* the chunks of the file the tailer holds open after a rotation
    logExists,       \* whether a file is at PREVIEW_LOG's path
    fd,              \* the tailer's open file: "closed", "cur" (the file at the path) or "old" (a file rotated away)
    pos,             \* the tailer's read position in its file, in chunks
    pcMain,          \* the main thread's position
    line,            \* the main thread's _process_log_line argument
    entry,           \* the main thread's local entry
    acc,             \* the value the main thread loaded for a += it has not stored yet
    sig,             \* the signal handler's position ("none": not entered)
    pcScan,          \* the process-scan thread's position
    scanned,         \* the scan thread's local processes (the pids a scan found)
    pcStats,         \* the stats thread's position
    pcStop,          \* a thread calling stop_monitoring: its position
    snap,            \* the local stats_data of each caller of _save_current_stats
    env,             \* the environment of the run (which inputs it may produce)
    nextId,          \* the number of chunks written or lines fed so far
    h,               \* history: what was delivered, what a line started from
    lock,            \* ProcessMonitor.lock: "free", or the thread that holds it
    earlier          \* the positions of the two loops an earlier start_monitoring started

vars == <<running, stats, recent_entries, error_buffer, errors_file, monitor_log,
          stats_file, process_file, processes, log, oldlog, logExists, fd, pos, pcMain,
          line, entry, acc, sig, pcScan, scanned, pcStats, pcStop, snap, env, nextId, h,
          lock, earlier>>

-----------------------------------------------------------------------------
(* Program constants *)

RECENT_MAXLEN == 1000
ERROR_MAXLEN == 100

(* Bounds of the model *)

MaxFeed == 110          \* lines a harness feeds in one run
MaxLines == 2
MaxScans == 2
MaxSaves == 1
MaxTableScans == 3
MaxChunks == 3
MaxStopped == 2         \* lines, scans or stats wakes in a run that is stopped
MaxHeld == 1           \* lines, scans and stats wakes in a run that watches the lock
MaxTokens == 4          \* tokens in a line given to the parser alone

-----------------------------------------------------------------------------
(* Lines and the parser *)

Ts(n) == [t |-> "ts", c |-> n]
Br(c) == [t |-> "br", c |-> c]
Wd(c) == [t |-> "wd", c |-> c]
Ws == [t |-> "ws", c |-> " "]

\* The lines the producer writes, by kind; n is the time of the write.
LineOf(kind, n) ==
    CASE kind = "error"  -> <<Ts(n), Br("ERROR"), Br("renderer"), Wd("failed")>>
      [] kind = "fatal"  -> <<Ts(n), Br("FATAL"), Wd("stopped")>>
      [] kind = "plain"  -> <<Ts(n), Br("renderer"), Wd("ready")>>
      [] kind = "debug"  -> <<Ts(n), Br("DEBUG"), Wd("tick")>>
      [] kind = "words"  -> <<Ts(n), Wd("panic")>>
      [] kind = "blank"  -> <<Ws>>

LevelNames == {"DEBUG", "INFO", "WARN", "ERROR", "TRACE", "FATAL"}
Components == {"ERROR", "FATAL", "DEBUG", "renderer", "unknown"}

\* str.upper on the spellings of the model's vocabulary
Upper(c) ==
    CASE c = "error" -> "ERROR"
      [] c = "fatal" -> "FATAL"
      [] OTHER -> c

\* the texts of the vocabulary in which PATTERNS['error'] finds a match
ErrorTexts == {"ERROR", "error", "failed", "panic", "exception", "crash"}

RECURSIVE LStrip(_)
LStrip(s) ==
    IF s = <<>> THEN s
    ELSE IF Head(s).t = "ws" THEN LStrip(Tail(s)) ELSE s

RECURSIVE RStrip(_)
RStrip(s) ==
    IF s = <<>> THEN s
    ELSE IF s[Len(s)].t = "ws" THEN RStrip(SubSeq(s, 1, Len(s) - 1)) ELSE s

\* str.strip
Strip(s) == RStrip(LStrip(s))

Matches(s, P(_)) == {i \in 1..Len(s) : P(s[i])}
Min(S) == CHOOSE x \in S : \A y \in S : x <= y

IsLevel(tok) == tok.t = "br" /\ Upper(tok.c) \in LevelNames
IsBracket(tok) == tok.t = "br"
IsTimestamp(tok) == tok.t = "ts"
IsErrorText(tok) == tok.t \in {"br", "wd"} /\ tok.c \in ErrorTexts

Now == 0

extract_timestamp(s) ==
    IF Matches(s, IsTimestamp) = {} THEN Now ELSE s[Min(Matches(s, IsTimestamp))].c

extract_level_NoDefault(s) ==
    IF Matches(s, IsLevel) = {} THEN "" ELSE s[Min(Matches(s, IsLevel))].c

extract_level(s) ==
    IF Matches(s, IsLevel) = {} THEN "INFO" ELSE s[Min(Matches(s, IsLevel))].c

extract_component(s) ==
    IF Matches(s, IsBracket) = {} THEN "unknown" ELSE s[Min(Matches(s, IsBracket))].c

\* PATTERNS['level'] as re.sub uses it at line 99: not compiled, so without
\* IGNORECASE
IsLevelAsWritten(tok) == tok.t = "br" /\ tok.c \in LevelNames

\* lines 96-99: the timestamps, the levels and then every bracketed group are
\* removed, the text stripped after each removal
clean_message(s) ==
    LET noTs  == Strip(SelectSeq(s, LAMBDA tok : ~IsTimestamp(tok)))
        noLvl == Strip(SelectSeq(noTs, LAMBDA tok : ~IsLevelAsWritten(tok)))
    IN Strip(SelectSeq(noLvl, LAMBDA tok : ~IsBracket(tok)))

parse_line(s) ==
    [timestamp |-> extract_timestamp(s),
     level     |-> extract_level(s),
     component |-> extract_component(s),
     message   |-> clean_message(s),
     has_error |-> Matches(s, IsErrorText) # {}]

\* no value is loaded
NoAcc == -1

NoEntry ==
    [timestamp |-> -1, level |-> "", component |-> "", message |-> <<>>, has_error |-> FALSE]

IsErrorEntry_LevelOnly(e) == e.level \in {"ERROR", "FATAL"}

\* line 292: the test that makes an entry an error
IsErrorEntry(e) == e.level \in {"ERROR", "FATAL"} \/ e.has_error

-----------------------------------------------------------------------------
(* deque(maxlen=n).append *)

DequeAppend_NoEvict(q, x, maxlen) == Append(q, x)

DequeAppend_EvictTwo(q, x, maxlen) ==
    IF Len(q) >= maxlen THEN Append(SubSeq(q, 3, Len(q)), x) ELSE Append(q, x)

DequeAppend_Front(q, x, maxlen) == <<x>> \o q

DequeAppend_DropNewest(q, x, maxlen) ==
    IF Len(q) >= maxlen THEN q ELSE Append(q, x)

DequeAppend(q, x, maxlen) ==
    IF Len(q) >= maxlen THEN Append(Tail(q), x) ELSE Append(q, x)

-----------------------------------------------------------------------------
(* The state after LogMonitor.__init__ *)

LevelKeys == LevelNames \cup {"error", "fatal"}

\* a file rewritten as a whole: absent, written (doc is its document) or cut
\* short by a write that raised
Written(d) == [state |-> "written", doc |-> d]

ZeroStats ==
    [total_lines      |-> 0,
     total_errors     |-> 0,
     active_processes |-> 0,
     level            |-> [l \in LevelKeys |-> 0],
     component        |-> [c \in Components |-> 0]]

Pids == {10, 11}
Threads == {"stats", "stop", "signal"}

NoHistory ==
    [errs       |-> <<>>,    \* the entries appended to error_buffer, in order
     delivered  |-> <<>>,    \* the chunk ids of each line handed to _process_log_line
     missing    |-> FALSE,   \* the file was not at its path when _monitor_logs looked for it
     atOpen     |-> {},      \* the chunk ids in the file when the tailer opened it
     changedAt  |-> -1,      \* the number of chunks written when the file was truncated or rotated
     pre        |-> <<>>,    \* <<what the line being processed started from>>
     failed     |-> {},      \* the writes of the current line that raised
     scans      |-> <<>>,    \* the outcome of each scan, in order: a set of pids, or Failed
     saves      |-> 0,       \* the number of times the stats loop woke from its sleep
     shown      |-> [kind |-> "none", file |-> "absent", doc |-> ZeroStats],
                             \* the outcome of the latest --stats request, and the
                             \* state of stats.json as it was made
     stopDoc    |-> <<>>,    \* <<the document stop_monitoring wrote to stats.json>>
     docScans   |-> -1,      \* the number of scans made when processes.json was last written
     tableBefore |-> <<>>]   \* <<ProcessMonitor.processes before the latest scan>>

\* the counters, the buffers and the two append-only files
\* no loop of an earlier start_monitoring
NoLoops == [scan |-> "unstarted", stats |-> "unstarted"]

InitAggregator ==
    /\ stats = ZeroStats
    /\ recent_entries = <<>>
    /\ error_buffer = <<>>
    /\ errors_file = <<>>
    /\ monitor_log = <<>>
    /\ line = <<>>
    /\ entry = NoEntry
    /\ acc = NoAcc
    /\ nextId = 0

InitRest ==
    /\ running = FALSE
    /\ stats_file = [state |-> "absent", doc |-> ZeroStats]
    /\ process_file = [state |-> "absent", doc |-> {}]
    /\ processes = [p \in Pids |-> "absent"]
    /\ fd = "closed"
    /\ pos = 0
    /\ sig = "none"
    /\ pcScan = "unstarted"
    /\ scanned = {}
    /\ pcStats = "unstarted"
    /\ pcStop = "idle"
    /\ snap = [t \in Threads |-> ZeroStats]
    /\ h = NoHistory
    /\ lock = "free"
    /\ earlier = NoLoops

InitMonitor == InitAggregator /\ InitRest

-----------------------------------------------------------------------------
(* _process_log_line, statement by statement (the main thread) *)

\* the main thread runs unless a signal handler has interrupted it
MainRuns == sig = "none"

\* where _process_log_line returns to
Ret == IF env.caller = "harness" THEN "idle" ELSE "m_loop"

\* the outcomes of a write to a file: it succeeds, or it raises
Outcomes == IF env.faulty THEN {"ok", "raise"} ELSE {"ok"}

ErrorRecord(e) == e
MonitorRecord(e) == [timestamp |-> e.timestamp, level |-> e.level, component |-> e.component]

PreOfLine ==
    [stats |-> stats, error_buffer |-> error_buffer,
     errors_file |-> errors_file, monitor_log |-> monitor_log,
     recent_entries |-> recent_entries]

IsSkipped_Never(l) == FALSE

\* lines 279-280: if not line: return
IsSkipped(l) == l = <<>>

\* lines 279-284: the empty line returns; else parse and append to recent_entries
ProcEnter ==
    /\ pcMain = "p_enter" /\ MainRuns
    /\ IF IsSkipped(line)
       THEN /\ pcMain' = Ret
            /\ UNCHANGED <<entry, recent_entries, h>>
       ELSE /\ entry' = parse_line(line)
            /\ recent_entries' = DequeAppend(recent_entries, entry', RECENT_MAXLEN)
            /\ h' = [h EXCEPT !.pre = IF env.trackPre THEN <<PreOfLine>> ELSE <<>>,
                              !.failed = {}]
            /\ pcMain' = "p_total"
    /\ UNCHANGED <<running, stats, error_buffer, errors_file, monitor_log, stats_file,
                   process_file, processes, log, oldlog, logExists, fd, pos, line, sig, pcScan,
                   scanned, pcStats, pcStop, snap, env, lock, earlier, nextId, acc>>

\* A statement x += 1 loads x, adds and stores.  No other thread stores to a
\* counter the main thread increments, so the three are one step of the model,
\* unless the run splits them (env.split): then the load is a step of its own
\* and the store writes the loaded value plus one.
Loads == env.split /\ acc = NoAcc

\* the value a += 1 stores into a counter whose value is now cur
Inc(cur) == (IF env.split THEN acc ELSE cur) + 1

\* the line is not counted before its error is
TotalCounted_Not(s) == s

\* line 287: self.stats['total_lines'] += 1
TotalCounted(s) == [s EXCEPT !.total_lines = Inc(@)]

\* line 287
ProcTotal ==
    /\ pcMain = "p_total" /\ MainRuns
    /\ IF Loads
       THEN /\ acc' = stats.total_lines
            /\ UNCHANGED <<stats, pcMain>>
       ELSE /\ stats' = TotalCounted(stats)
            /\ acc' = NoAcc
            /\ pcMain' = "p_level"
    /\ UNCHANGED <<running, recent_entries, error_buffer, errors_file, monitor_log,
                   stats_file, process_file, processes, log, oldlog, logExists, fd, pos, line,
                   entry, sig, pcScan, scanned, pcStats, pcStop, snap, env, lock, earlier, nextId, h>>

LevelCounted_SkipDefault(s, e) ==
    IF e.level = "INFO" THEN s ELSE [s EXCEPT !.level[e.level] = Inc(@)]

LevelCounted(s, e) == [s EXCEPT !.level[e.level] = Inc(@)]

\* line 288
ProcLevel ==
    /\ pcMain = "p_level" /\ MainRuns
    /\ IF Loads
       THEN /\ acc' = stats.level[entry.level]
            /\ UNCHANGED <<stats, pcMain>>
       ELSE /\ stats' = LevelCounted(stats, entry)
            /\ acc' = NoAcc
            /\ pcMain' = "p_comp"
    /\ UNCHANGED <<running, recent_entries, error_buffer, errors_file, monitor_log,
                   stats_file, process_file, processes, log, oldlog, logExists, fd, pos, line,
                   entry, sig, pcScan, scanned, pcStats, pcStop, snap, env, lock, earlier, nextId, h>>

ComponentCounted_Unknown(s, e) == [s EXCEPT !.component["unknown"] = Inc(@)]

\* line 289: self.stats[f'component_{entry.component}'] += 1
ComponentCounted(s, e) == [s EXCEPT !.component[e.component] = Inc(@)]

\* line 289
ProcComponent ==
    /\ pcMain = "p_comp" /\ MainRuns
    /\ IF Loads
       THEN /\ acc' = stats.component[entry.component]
            /\ UNCHANGED <<stats, pcMain>>
       ELSE /\ stats' = ComponentCounted(stats, entry)
            /\ acc' = NoAcc
            /\ pcMain' = "p_iserr"
    /\ UNCHANGED <<running, recent_entries, error_buffer, errors_file, monitor_log,
                   stats_file, process_file, processes, log, oldlog, logExists, fd, pos, line,
                   entry, sig, pcScan, scanned, pcStats, pcStop, snap, env, lock, earlier, nextId, h>>

\* lines 292-293
ProcIsError ==
    /\ pcMain = "p_iserr" /\ MainRuns
    /\ IF IsErrorEntry(entry)
       THEN /\ error_buffer' = DequeAppend(error_buffer, entry, ERROR_MAXLEN)
            /\ h' = [h EXCEPT !.errs = Append(@, entry)]
            /\ pcMain' = "p_errcount"
       ELSE /\ pcMain' = "p_monitor"
            /\ UNCHANGED <<error_buffer, h>>
    /\ UNCHANGED <<running, stats, recent_entries, errors_file, monitor_log, stats_file,
                   process_file, processes, log, oldlog, logExists, fd, pos, line, entry, sig,
                   pcScan, scanned, pcStats, pcStop, snap, env, lock, earlier, nextId, acc>>

\* line 294
ProcErrorCount ==
    /\ pcMain = "p_errcount" /\ MainRuns
    /\ IF Loads
       THEN /\ acc' = stats.total_errors
            /\ UNCHANGED <<stats, pcMain>>
       ELSE /\ stats' = [stats EXCEPT !.total_errors = Inc(@)]
            /\ acc' = NoAcc
            /\ pcMain' = "p_logerr"
    /\ UNCHANGED <<running, recent_entries, error_buffer, errors_file, monitor_log,
                   stats_file, process_file, processes, log, oldlog, logExists, fd, pos, line,
                   entry, sig, pcScan, scanned, pcStats, pcStop, snap, env, lock, earlier, nextId, h>>

FileAppend_Rewrite(f, r) == <<r>>

FileAppend_Front(f, r) == <<r>> \o f

\* lines 337-338 and 350-351: open(path, 'a') and the write of one record
FileAppend(f, r) == Append(f, r)

AfterLineRaised_Uncaught == "returned"

AfterLineRaised_GoesOn == "p_monitor"

\* lines 304-306: the exception is caught and printed, _process_log_line returns
AfterLineRaised == Ret

\* line 295, _log_error: append one record to errors.json; if the write raises,
\* the handler of lines 304-306 prints and _process_log_line returns
ProcLogError ==
    /\ pcMain = "p_logerr" /\ MainRuns
    /\ \E o \in Outcomes :
          IF o = "ok"
          THEN /\ errors_file' = FileAppend(errors_file, ErrorRecord(entry))
               /\ pcMain' = "p_monitor"
               /\ h' = h
          ELSE /\ errors_file' = errors_file
               /\ pcMain' = AfterLineRaised
               /\ h' = [h EXCEPT !.failed = @ \cup {"errors_file"}]
    /\ UNCHANGED <<running, stats, recent_entries, error_buffer, monitor_log, stats_file,
                   process_file, processes, log, oldlog, logExists, fd, pos, line, entry, sig,
                   pcScan, scanned, pcStats, pcStop, snap, env, lock, earlier, nextId, acc>>

\* lines 298-302, _log_to_monitor: append one record to monitor.log, then return
ProcLogMonitor ==
    /\ pcMain = "p_monitor" /\ MainRuns
    /\ \E o \in Outcomes :
          IF o = "ok"
          THEN /\ monitor_log' = FileAppend(monitor_log, MonitorRecord(entry))
               /\ pcMain' = Ret
               /\ h' = h
          ELSE /\ monitor_log' = monitor_log
               /\ pcMain' = AfterLineRaised
               /\ h' = [h EXCEPT !.failed = @ \cup {"monitor_log"}]
    /\ UNCHANGED <<running, stats, recent_entries, error_buffer, errors_file, stats_file,
                   process_file, processes, log, oldlog, logExists, fd, pos, line, entry, sig,
                   pcScan, scanned, pcStats, pcStop, snap, env, lock, earlier, nextId, acc>>

ProcessLogLine ==
    \/ ProcEnter
    \/ ProcTotal
    \/ ProcLevel
    \/ ProcComponent
    \/ ProcIsError
    \/ ProcErrorCount
    \/ ProcLogError
    \/ ProcLogMonitor

-----------------------------------------------------------------------------
(* Lines fed one by one to _process_log_line (no loop of the monitor runs) *)

\* the kinds of the lines fed, repeated in this order
RingPatterns == {<<"error">>, <<"plain">>, <<"plain", "error", "error">>}

NoEnv ==
    [caller   |-> "tail",   \* who calls _process_log_line: the tail loop or a harness
     prefix   |-> 0,        \* how many plain lines a harness has fed before the run
     pattern  |-> <<>>,     \* the kinds of the lines a harness feeds then, repeated
     maxFeed  |-> 0,        \* how many lines a harness feeds in the run
     kinds    |-> {},       \* the kinds of lines the producer writes
     maxIds   |-> 0,        \* how many chunks the producer writes
     partial  |-> FALSE,    \* the producer also writes text without its newline
     rotation |-> FALSE,    \* the file may be truncated or rotated
     creation |-> FALSE,    \* a file missing at the start may be created later
     faulty   |-> FALSE,    \* writes to the output files may raise
     pids     |-> {},       \* the pids a scan may find
     scanFails |-> FALSE,   \* the process enumeration may raise
     maxScans |-> 0,        \* how many scans run
     maxSaves |-> 0,        \* how many times the stats loop wakes from its sleep
     stopper  |-> FALSE,    \* a thread calls stop_monitoring
     signals  |-> FALSE,    \* SIGINT or SIGTERM may arrive
     split    |-> FALSE,    \* a += is two steps: the load, then the add and the store
     hangs    |-> FALSE,    \* the process enumeration may never return
     restarts |-> FALSE,    \* start_monitoring is called again once it has returned
     trackPre |-> FALSE]    \* record in h what each line started from

\* the kind of the n-th line a harness feeds
KindAt(n) ==
    IF n <= env.prefix THEN "plain"
    ELSE env.pattern[((n - env.prefix - 1) % Len(env.pattern)) + 1]

\* the entry of the n-th line a harness feeds
EntryAt(n) == parse_line(Strip(LineOf(KindAt(n), n)))

\* The run starts from the state of a new monitor, or from its state after k =
\* 998 plain lines were fed to it: no buffer is full yet, the k entries are in
\* recent_entries and in monitor.log, and only their counters are not zero.
InitRing ==
    /\ InitRest
    /\ pcMain = "idle"
    /\ log = <<>>
    /\ oldlog = <<>>
    /\ logExists = FALSE
    /\ \E k \in {0, RECENT_MAXLEN - 2}, pat \in RingPatterns :
          /\ env = [NoEnv EXCEPT !.caller = "harness", !.prefix = k, !.pattern = pat,
                                 !.maxFeed = MaxFeed]
          /\ nextId = k
          /\ recent_entries = [n \in 1..k |-> parse_line(Strip(LineOf("plain", n)))]
          /\ monitor_log =
                [n \in 1..k |-> MonitorRecord(parse_line(Strip(LineOf("plain", n))))]
          /\ stats = [ZeroStats EXCEPT !.total_lines = k, !.level["INFO"] = k,
                                       !.component["renderer"] = k]
          /\ line = IF k = 0 THEN <<>> ELSE Strip(LineOf("plain", k))
          /\ entry = IF k = 0 THEN NoEntry ELSE parse_line(Strip(LineOf("plain", k)))
    /\ acc = NoAcc
    /\ error_buffer = <<>>
    /\ errors_file = <<>>

\* the caller strips the line and calls _process_log_line (line 273)
Feed ==
    /\ pcMain = "idle" /\ MainRuns
    /\ env.caller = "harness"
    /\ nextId < env.prefix + env.maxFeed
    /\ nextId' = nextId + 1
    /\ line' = Strip(LineOf(KindAt(nextId + 1), nextId + 1))
    /\ pcMain' = "p_enter"
    /\ UNCHANGED <<running, stats, recent_entries, error_buffer, errors_file, monitor_log,
                   stats_file, process_file, processes, log, oldlog, logExists, fd, pos, entry,
                   sig, pcScan, scanned, pcStats, pcStop, snap, env, lock, earlier, h, acc>>

NextRing == Feed \/ ProcessLogLine

SpecRing == InitRing /\ [][NextRing]_vars

-----------------------------------------------------------------------------
(* The bounded buffers *)

Last(q) == q[Len(q)]

\* the main thread has appended the entry of its line to recent_entries
Appended == pcMain \notin {"idle", "p_enter"}

\* the number of entries appended to recent_entries so far
NumAppended == IF Appended \/ pcMain = "idle" THEN nextId ELSE nextId - 1

\* C1: recent_entries never holds more than 1000 entries and error_buffer never
\* more than 100; an append is never refused (the entry just appended is the
\* last of its buffer), and once more entries were appended than a buffer holds
\* the buffer is full and starts right after the evicted ones.
C1_BuffersBounded ==
    /\ Len(recent_entries) <= RECENT_MAXLEN
    /\ Len(error_buffer) <= ERROR_MAXLEN
    /\ Appended => Last(recent_entries) = entry
    /\ NumAppended > RECENT_MAXLEN =>
          /\ Len(recent_entries) = RECENT_MAXLEN
          /\ Head(recent_entries) = EntryAt(NumAppended - RECENT_MAXLEN + 1)
    /\ pcMain \in {"p_errcount", "p_logerr"} => Last(error_buffer) = entry
    /\ h.errs # <<>> => Last(error_buffer) = Last(h.errs)
    /\ Len(h.errs) > ERROR_MAXLEN =>
          /\ Len(error_buffer) = ERROR_MAXLEN
          /\ Head(error_buffer) = h.errs[Len(h.errs) - ERROR_MAXLEN + 1]

C1_Witness ==
    /\ NumAppended > RECENT_MAXLEN
    /\ Len(recent_entries) = RECENT_MAXLEN
    /\ Len(h.errs) > ERROR_MAXLEN
    /\ Len(error_buffer) = ERROR_MAXLEN
    /\ pcMain = "p_errcount"

\* C36: whenever _process_log_line is not in the middle of a line,
\* recent_entries holds min(total_lines, 1000) entries and error_buffer
\* min(total_errors, 100).
C36_BufferSizesFollowCounters ==
    pcMain = "idle" =>
        /\ Len(recent_entries) = Min({stats.total_lines, RECENT_MAXLEN})
        /\ Len(error_buffer) = Min({stats.total_errors, ERROR_MAXLEN})

C36_Witness ==
    /\ pcMain = "idle"
    /\ stats.total_lines = RECENT_MAXLEN + 100
    /\ stats.total_errors = ERROR_MAXLEN + 2
    /\ Len(recent_entries) = RECENT_MAXLEN
    /\ Len(error_buffer) = ERROR_MAXLEN

\* C2: after N > 1000 non-empty lines were fed one by one, recent_entries holds
\* exactly 1000 entries: those of lines N-999 .. N, in that order.
C2_LastCapacityInOrder ==
    (pcMain = "idle" /\ nextId > RECENT_MAXLEN) =>
        /\ Len(recent_entries) = RECENT_MAXLEN
        /\ \A i \in 1..RECENT_MAXLEN :
              /\ recent_entries[i].timestamp = nextId - RECENT_MAXLEN + i
              /\ recent_entries[i] = EntryAt(nextId - RECENT_MAXLEN + i)

C2_Witness ==
    /\ pcMain = "idle"
    /\ nextId = RECENT_MAXLEN + 100
    /\ Len(recent_entries) = RECENT_MAXLEN
    /\ recent_entries[1].timestamp = 101
    /\ recent_entries[RECENT_MAXLEN].timestamp = RECENT_MAXLEN + 100
    /\ recent_entries[RECENT_MAXLEN].level = "ERROR"

-----------------------------------------------------------------------------
(* The monitor: start_monitoring and the tail loop (the main thread) *)

aggVars == <<stats, recent_entries, error_buffer, errors_file, monitor_log>>
tailVars == <<log, oldlog, logExists, fd, pos>>
lineVars == <<line, entry, acc>>
scanVars == <<pcScan, scanned, processes, process_file>>
saveVars == <<pcStats, pcStop, snap, stats_file>>

\* the signal handler has ended the process: by sys.exit(0), or by the
\* exception that left it
Exited == sig \in {"exited", "raised"}

\* the process lives until main returns or the signal handler ends it; when
\* the caller of start_monitoring is to call it again, it lives on
Alive == (pcMain # "returned" \/ env.restarts) /\ ~Exited

Ids(chunks) == {chunks[i].id : i \in 1..Len(chunks)}

\* lines 240-247: set the flag and start the two daemon threads
StartMonitoring ==
    /\ pcMain = "m_start" /\ MainRuns
    /\ running' = TRUE
    /\ pcScan' = "s_loop"
    /\ pcStats' = "t_loop"
    /\ pcMain' = "m_open"
    /\ UNCHANGED <<aggVars, tailVars, lineVars, sig, scanned, processes, process_file,
                   pcStop, snap, stats_file, env, lock, earlier, nextId, h>>

\* f.seek(0, 0)
SeekEnd_Start == Len(log) * 0

\* line 268: f.seek(0, 2)
SeekEnd == Len(log)

FileFound_Always == TRUE

\* line 262: log_file.exists()
FileFound == logExists

\* lines 260-268: return if the file is missing, else open it and seek to its end
MonitorLogsOpen ==
    /\ pcMain = "m_open" /\ MainRuns
    /\ IF FileFound
       THEN /\ fd' = "cur"
            /\ pos' = SeekEnd
            /\ h' = [h EXCEPT !.atOpen = Ids(log), !.missing = ~logExists]
            /\ pcMain' = "m_loop"
       ELSE /\ pcMain' = "returned"
            /\ h' = [h EXCEPT !.missing = ~logExists]
            /\ UNCHANGED <<fd, pos>>
    /\ UNCHANGED <<running, aggVars, log, oldlog, logExists, lineVars, sig, scanVars,
                   saveVars, env, lock, earlier, nextId>>

KeepTailing_Once(r) == FALSE

\* line 270: while self.running
KeepTailing(r) == r

\* line 270: the loop's test of the flag; leaving the with block closes the file
TailLoop ==
    /\ pcMain = "m_loop" /\ MainRuns
    /\ IF KeepTailing(running)
       THEN /\ pcMain' = "m_read"
            /\ fd' = fd
       ELSE /\ pcMain' = "returned"
            /\ fd' = "closed"
    /\ UNCHANGED <<running, aggVars, log, oldlog, logExists, pos, lineVars, sig, scanVars,
                   saveVars, env, lock, earlier, nextId, h>>

\* the chunks of the file the tailer has open
Opened == IF fd = "old" THEN oldlog ELSE log

\* f.readline() at position p of chunks c: the index of the last chunk it
\* returns (the first one at or after p+1 that ends a line, else the last
\* chunk of the file), or p when nothing is left to read
ReadEnd(c, p) ==
    IF p >= Len(c) THEN p
    ELSE IF \E k \in (p + 1)..Len(c) : c[k].nl
         THEN Min({k \in (p + 1)..Len(c) : c[k].nl})
         ELSE Len(c)

RECURSIVE Text(_, _, _)
Text(c, from, to) ==
    IF from > to THEN <<>> ELSE c[from].toks \o Text(c, from + 1, to)

PosAfterRead_Stay(c, p) == p

\* the position after f.readline()
PosAfterRead(c, p) == ReadEnd(c, p)

\* lines 271-275: read a line; hand it, stripped, to _process_log_line, or
\* sleep POLL_INTERVAL when there is none
TailRead ==
    /\ pcMain = "m_read" /\ MainRuns
    /\ LET c == Opened
           k == ReadEnd(c, pos)
       IN IF k > pos
          THEN /\ line' = Strip(Text(c, pos + 1, k))
               /\ pos' = PosAfterRead(c, pos)
               /\ h' = [h EXCEPT !.delivered = Append(@, {c[i].id : i \in (pos + 1)..k})]
               /\ pcMain' = "p_enter"
          ELSE /\ pcMain' = "m_loop"
               /\ UNCHANGED <<line, pos, h>>
    /\ UNCHANGED <<running, aggVars, log, oldlog, logExists, fd, entry, sig, scanVars,
                   saveVars, env, lock, earlier, nextId, acc>>

TailLoopSteps == StartMonitoring \/ MonitorLogsOpen \/ TailLoop \/ TailRead

MainThread == TailLoopSteps \/ ProcessLogLine

-----------------------------------------------------------------------------
(* The producer of the log file, and whoever truncates or rotates it *)

\* A write changes what the next readline returns and nothing else: it is taken
\* while the main thread is between two lines.
BetweenLines == pcMain \in {"idle", "m_start", "m_open", "m_loop", "m_read", "returned"}

NewChunk(kind, nl) == [id |-> nextId + 1, toks |-> LineOf(kind, nextId + 1), nl |-> nl]

\* the producer appends one line
WriteLine ==
    /\ logExists /\ nextId < env.maxIds /\ BetweenLines
    /\ \E kind \in env.kinds :
          log' = Append(log, NewChunk(kind, TRUE))
    /\ nextId' = nextId + 1
    /\ UNCHANGED <<running, aggVars, oldlog, logExists, fd, pos, pcMain, lineVars, sig,
                   scanVars, saveVars, env, lock, earlier, h>>

\* the producer appends text and not yet its newline
WritePart ==
    /\ logExists /\ nextId < env.maxIds /\ env.partial /\ BetweenLines
    /\ \E kind \in env.kinds \ {"blank"} :
          log' = Append(log, NewChunk(kind, FALSE))
    /\ nextId' = nextId + 1
    /\ UNCHANGED <<running, aggVars, oldlog, logExists, fd, pos, pcMain, lineVars, sig,
                   scanVars, saveVars, env, lock, earlier, h>>

\* the file is truncated to nothing (copytruncate)
Truncate ==
    /\ logExists /\ env.rotation /\ h.changedAt < 0 /\ log # <<>>
    /\ log' = <<>>
    /\ h' = [h EXCEPT !.changedAt = nextId]
    /\ UNCHANGED <<running, aggVars, oldlog, logExists, fd, pos, pcMain, lineVars, sig,
                   scanVars, saveVars, env, lock, earlier, nextId>>

\* the file is renamed away and a new, empty file takes its path
Rotate ==
    /\ logExists /\ env.rotation /\ h.changedAt < 0
    /\ log' = <<>>
    /\ IF fd = "cur"
       THEN fd' = "old" /\ oldlog' = log
       ELSE UNCHANGED <<fd, oldlog>>
    /\ h' = [h EXCEPT !.changedAt = nextId]
    /\ UNCHANGED <<running, aggVars, logExists, pos, pcMain, lineVars, sig,
                   scanVars, saveVars, env, lock, earlier, nextId>>

\* a file appears at the path that had none
CreateLog ==
    /\ ~logExists /\ env.creation
    /\ logExists' = TRUE
    /\ log' = <<>>
    /\ UNCHANGED <<running, aggVars, oldlog, fd, pos, pcMain, lineVars, sig,
                   scanVars, saveVars, env, lock, earlier, nextId, h>>

-----------------------------------------------------------------------------
(* ProcessMonitor.scan_processes and the process-scan loop (a daemon thread) *)

Found(pids) == [ok |-> TRUE, pids |-> pids]
Failed == [ok |-> FALSE, pids |-> {}]

TableAfter_KeepTerminated(table, found) ==
    [p \in Pids |->
        IF table[p] = "terminated" THEN "terminated"
        ELSE IF p \in found THEN "running"
        ELSE IF table[p] = "absent" THEN "absent" ELSE "terminated"]

TableAfter_ForgetTerminated(table, found) ==
    [p \in Pids |->
        IF p \in found THEN "running"
        ELSE IF table[p] = "running" THEN "terminated" ELSE "absent"]

TableAfter_DeleteAbsent(table, found) ==
    [p \in Pids |-> IF p \in found THEN "running" ELSE "absent"]

\* lines 198-206: the retained table after a scan that found the pids in found
TableAfter(table, found) ==
    [p \in Pids |->
        IF p \in found THEN "running"
        ELSE IF table[p] = "absent" THEN "absent" ELSE "terminated"]

\* a scan loop that never tests the flag
KeepScanning_Always(r) == TRUE

\* line 310: while self.running
KeepScanning(r) == r

ScanLoop ==
    /\ pcScan = "s_loop" /\ Alive
    /\ pcScan' = IF KeepScanning(running) THEN "s_scan" ELSE "done"
    /\ UNCHANGED <<running, aggVars, tailVars, pcMain, lineVars, sig, scanned, processes,
                   process_file, saveVars, env, lock, earlier, nextId, h>>

TableAfterFailure_AllTerminated(table) ==
    [p \in Pids |-> IF table[p] = "absent" THEN "absent" ELSE "terminated"]

\* lines 171, 209-211: subprocess.run raises before the lock is taken, and the
\* handler prints and returns []
TableAfterFailure(table) == table

ListAfterFailure_Retained(table) == {p \in Pids : table[p] = "running"}

\* line 211: return []
ListAfterFailure(table) == {}

\* line 312, scan_processes: the enumeration raises (the table is left alone
\* and [] is returned), or it finds some pids
ScanProcesses ==
    /\ pcScan = "s_scan" /\ Alive
    /\ Len(h.scans) < env.maxScans
    /\ \E res \in {Found(f) : f \in SUBSET env.pids} \cup (IF env.scanFails THEN {Failed} ELSE {}) :
          /\ IF res.ok
             THEN /\ processes' = TableAfter(processes, res.pids)
                  /\ scanned' = res.pids
             ELSE /\ processes' = TableAfterFailure(processes)
                  /\ scanned' = ListAfterFailure(processes)
          /\ h' = [h EXCEPT !.scans = Append(@, res), !.tableBefore = <<processes>>]
    /\ pcScan' = "s_active"
    /\ UNCHANGED <<running, aggVars, tailVars, pcMain, lineVars, sig, process_file,
                   saveVars, env, lock, earlier, nextId>>

ActiveStored_IntoCopy(s, n) == [snap["stats"] EXCEPT !.active_processes = n]

ActiveStored_Reset(s, n) == [ZeroStats EXCEPT !.active_processes = n]

\* line 313: self.stats['active_processes'] = n
ActiveStored(s, n) == [s EXCEPT !.active_processes = n]

\* line 313
ScanActive ==
    /\ pcScan = "s_active" /\ Alive
    /\ stats' = ActiveStored(stats, Cardinality(scanned))
    /\ pcScan' = "s_write"
    /\ UNCHANGED <<running, recent_entries, error_buffer, errors_file, monitor_log,
                   tailVars, pcMain, lineVars, sig, scanned, processes, process_file,
                   saveVars, env, lock, earlier, nextId, h>>

\* the outcomes of rewriting a file opened with 'w': written, open raised (the
\* file is as before), or the write raised (the file is cut short)
Rewrites == IF env.faulty THEN {"ok", "raise", "cut"} ELSE {"ok"}

Rewritten(old, new, o, empty) ==
    CASE o = "ok" -> Written(new)
      [] o = "raise" -> old
      [] o = "cut" -> [state |-> "partial", doc |-> empty]

\* the document json.dump writes for the list the scan loop holds
ProcessDocument(found, table) == found

AfterScanWrite_Uncaught(o) == IF o = "ok" THEN "s_loop" ELSE "dead"

\* lines 320-323: an exception is caught and printed; then the sleep, then the loop
AfterScanWrite(o) == "s_loop"

\* lines 316-323: write processes.json (an exception is caught), then sleep
ScanWrite ==
    /\ pcScan = "s_write" /\ Alive
    /\ \E o \in Rewrites :
          /\ process_file' = Rewritten(process_file, ProcessDocument(scanned, processes), o, {})
          /\ h' = [h EXCEPT !.docScans = IF o = "ok" THEN Len(h.scans) ELSE @]
          /\ pcScan' = AfterScanWrite(o)
    /\ UNCHANGED <<running, aggVars, tailVars, pcMain, lineVars, sig, scanned, processes,
                   saveVars, env, lock, earlier, nextId>>

MonitorProcesses == ScanLoop \/ ScanProcesses \/ ScanActive \/ ScanWrite

-----------------------------------------------------------------------------
(* scan_processes with its lock: the enumeration, the acquire, the update *)

\* lines 171-196: ps runs and its output is parsed into the local list; it
\* may raise (the handler returns []), and it may never return
ScanEnumerate ==
    /\ pcScan = "s_scan" /\ Alive
    /\ \/ \E f \in SUBSET env.pids :
             /\ Len(h.scans) < env.maxScans
             /\ scanned' = f
             /\ h' = [h EXCEPT !.scans = Append(@, Found(f)), !.tableBefore = <<processes>>]
             /\ pcScan' = "s_acquire"
       \/ /\ env.scanFails
          /\ Len(h.scans) < env.maxScans
          /\ scanned' = ListAfterFailure(processes)
          /\ h' = [h EXCEPT !.scans = Append(@, Failed), !.tableBefore = <<processes>>]
          /\ pcScan' = "s_active"
       \/ /\ env.hangs
          /\ pcScan' = "s_hung"
          /\ UNCHANGED <<scanned, h>>
    /\ UNCHANGED <<running, aggVars, tailVars, pcMain, lineVars, sig, processes,
                   process_file, saveVars, env, nextId, lock, earlier>>

\* line 198: with self.lock, entered when no thread holds the lock
ScanAcquire ==
    /\ pcScan = "s_acquire" /\ Alive
    /\ lock = "free"
    /\ lock' = "scan"
    /\ pcScan' = "s_update"
    /\ UNCHANGED <<running, aggVars, tailVars, pcMain, lineVars, sig, scanned, processes,
                   process_file, saveVars, env, nextId, h, earlier>>

\* the with block never left
Released_Never(holder) == holder

\* line 206, the end of the with block: the lock is released
Released(holder) == "free"

\* lines 199-208: the table is updated under the lock, the lock released and
\* the list returned
ScanUpdate ==
    /\ pcScan = "s_update" /\ Alive
    /\ processes' = TableAfter(processes, scanned)
    /\ lock' = Released(lock)
    /\ pcScan' = "s_active"
    /\ UNCHANGED <<running, aggVars, tailVars, pcMain, lineVars, sig, scanned,
                   process_file, saveVars, env, nextId, h, earlier>>

MonitorProcessesLocking ==
    ScanLoop \/ ScanEnumerate \/ ScanAcquire \/ ScanUpdate \/ ScanActive \/ ScanWrite

-----------------------------------------------------------------------------
(* _save_current_stats and its three callers *)

\* a copy made counter by counter, total_lines read one flush earlier
Snapshot_OldTotal(s) == [s EXCEPT !.total_lines = snap["stats"].total_lines]

\* line 361: stats_data = dict(self.stats)
Snapshot(s) == s

\* lines 355-356: the stats loop's test of the flag, then its sleep
StatsLoop ==
    /\ pcStats = "t_loop" /\ Alive
    /\ pcStats' = IF running THEN "t_snap" ELSE "done"
    /\ UNCHANGED <<running, aggVars, tailVars, pcMain, lineVars, sig, scanVars, pcStop,
                   snap, stats_file, env, lock, earlier, nextId, h>>

\* lines 361-363 in the stats loop
StatsSnap ==
    /\ pcStats = "t_snap" /\ Alive
    /\ h.saves < env.maxSaves
    /\ snap' = [snap EXCEPT !["stats"] = Snapshot(stats)]
    /\ h' = [h EXCEPT !.saves = @ + 1]
    /\ pcStats' = "t_write"
    /\ UNCHANGED <<running, aggVars, tailVars, pcMain, lineVars, sig, scanVars, pcStop,
                   stats_file, env, lock, earlier, nextId>>

\* lines 355-357 have no try: an exception of _save_current_stats ends the thread
AfterStatsWrite(o) == IF o = "ok" THEN "t_loop" ELSE "dead"

\* lines 365-366 in the stats loop
StatsWrite ==
    /\ pcStats = "t_write" /\ Alive
    /\ \E o \in Rewrites :
          /\ stats_file' = Rewritten(stats_file, snap["stats"], o, ZeroStats)
          /\ pcStats' = AfterStatsWrite(o)
    /\ UNCHANGED <<running, aggVars, tailVars, pcMain, lineVars, sig, scanVars, pcStop,
                   snap, env, lock, earlier, nextId, h>>

SaveStatsPeriodically == StatsLoop \/ StatsSnap \/ StatsWrite

\* line 254, stop_monitoring called by a thread of its own
StopMonitoring ==
    /\ pcStop = "idle" /\ env.stopper /\ ~Exited
    /\ pcMain # "m_start"
    /\ running' = FALSE
    /\ pcStop' = "x_snap"
    /\ UNCHANGED <<aggVars, tailVars, pcMain, lineVars, sig, scanVars, pcStats, snap,
                   stats_file, env, lock, earlier, nextId, h>>

\* line 255: lines 361-363
StopSnap ==
    /\ pcStop = "x_snap" /\ ~Exited
    /\ snap' = [snap EXCEPT !["stop"] = Snapshot(stats)]
    /\ pcStop' = "x_write"
    /\ UNCHANGED <<running, aggVars, tailVars, pcMain, lineVars, sig, scanVars, pcStats,
                   stats_file, env, lock, earlier, nextId, h>>

\* line 255: lines 365-366
StopWrite ==
    /\ pcStop = "x_write" /\ ~Exited
    /\ \E o \in Rewrites :
          /\ stats_file' = Rewritten(stats_file, snap["stop"], o, ZeroStats)
          /\ h' = [h EXCEPT !.stopDoc = IF o = "ok" THEN <<snap["stop"]>> ELSE @]
    /\ pcStop' = "done"
    /\ UNCHANGED <<running, aggVars, tailVars, pcMain, lineVars, sig, scanVars, pcStats,
                   snap, env, lock, earlier, nextId>>

StopMonitoringSteps == StopMonitoring \/ StopSnap \/ StopWrite

\* a caller of _save_current_stats is at lines 365-366: it has opened
\* stats.json with 'w', which empties the file, and not yet closed it
Rewriting == (pcStats = "t_write" /\ Alive) \/ (pcStop = "x_write" /\ ~Exited) \/ sig = "h_write"

\* the file as exists() and open() of another process may see it: as it is,
\* or emptied by a writer that has not finished
Views == {stats_file} \cup (IF Rewriting THEN {[state |-> "partial", doc |-> ZeroStats]} ELSE {})

\* lines 474-479: no file gives the 'not available' message; else json.load,
\* which raises on a document that is not whole
Shown(view) ==
    CASE view.state = "absent"  -> [kind |-> "not_available", doc |-> ZeroStats]
      [] view.state = "written" -> [kind |-> "document", doc |-> view.doc]
      [] OTHER                  -> [kind |-> "raised", doc |-> ZeroStats]

\* lines 470-480: main run with --stats by another process
ShowStats ==
    /\ \E view \in Views :
          h' = [h EXCEPT !.shown = [kind |-> Shown(view).kind, file |-> stats_file.state,
                                    doc |-> Shown(view).doc]]
    /\ UNCHANGED <<running, aggVars, tailVars, pcMain, lineVars, sig, scanVars, saveVars,
                   env, lock, earlier, nextId>>

\* lines 423-428: SIGINT or SIGTERM; the handler runs in the main thread, which
\* it interrupts wherever it is, and calls stop_monitoring (line 254)
SignalHandler ==
    /\ sig = "none" /\ env.signals /\ Alive
    /\ pcMain # "m_start"
    /\ running' = FALSE
    /\ sig' = "h_snap"
    /\ UNCHANGED <<aggVars, tailVars, pcMain, lineVars, scanVars, saveVars, env, lock, earlier, nextId, h>>

\* line 255 in the handler: lines 361-363
SignalSnap ==
    /\ sig = "h_snap"
    /\ snap' = [snap EXCEPT !["signal"] = Snapshot(stats)]
    /\ sig' = "h_write"
    /\ UNCHANGED <<running, aggVars, tailVars, pcMain, lineVars, scanVars, pcStats, pcStop,
                   stats_file, env, lock, earlier, nextId, h>>

\* lines 428-429: sys.exit(0) once stop_monitoring has returned; an exception
\* of stop_monitoring leaves the handler and ends the process with a traceback
AfterSignalWrite(o) == IF o = "ok" THEN "exited" ELSE "raised"

\* line 255 in the handler: lines 365-366; then the process ends
SignalWrite ==
    /\ sig = "h_write"
    /\ \E o \in Rewrites :
          /\ stats_file' = Rewritten(stats_file, snap["signal"], o, ZeroStats)
          /\ sig' = AfterSignalWrite(o)
    /\ UNCHANGED <<running, aggVars, tailVars, pcMain, lineVars, scanVars, pcStats, pcStop,
                   snap, env, lock, earlier, nextId, h>>

SignalSteps == SignalHandler \/ SignalSnap \/ SignalWrite

-----------------------------------------------------------------------------
(* The monitor run by main: the three loops, stop_monitoring and the signal *)

MonitorKinds == {"error", "plain", "blank"}
AllKinds == {"error", "fatal", "words", "plain", "blank"}

Quiet == [NoEnv EXCEPT !.kinds = MonitorKinds, !.maxIds = MaxLines, !.pids = {10},
                       !.trackPre = TRUE]

\* The runs of the monitor: in each, the lines are written while one more
\* thing happens: the writes to the output files may raise, the scan loop
\* scans, the stats loop wakes, a thread calls stop_monitoring, or a signal
\* arrives.
Runs ==
    {[Quiet EXCEPT !.kinds = AllKinds, !.faulty = TRUE],
     [Quiet EXCEPT !.maxScans = MaxScans],
     [Quiet EXCEPT !.maxSaves = MaxSaves],
     [Quiet EXCEPT !.stopper = TRUE],
     [Quiet EXCEPT !.signals = TRUE]}

InitSpec ==
    /\ InitMonitor
    /\ pcMain = "m_start"
    /\ log = <<>>
    /\ oldlog = <<>>
    /\ logExists \in BOOLEAN
    /\ env \in Runs

Next ==
    \/ TailLoopSteps
    \/ ProcessLogLine
    \/ WriteLine
    \/ MonitorProcesses
    \/ SaveStatsPeriodically
    \/ StopMonitoringSteps
    \/ SignalSteps

Spec == InitSpec /\ [][Next]_vars

-----------------------------------------------------------------------------
(* The process scanner alone: the scan loop beside an idle tail loop *)

InitScan ==
    /\ InitMonitor
    /\ pcMain = "m_start"
    /\ log = <<>>
    /\ oldlog = <<>>
    /\ logExists = TRUE
    /\ env = [NoEnv EXCEPT !.pids = Pids, !.maxScans = MaxTableScans, !.scanFails = TRUE,
                           !.faulty = TRUE, !.stopper = TRUE]

NextScan ==
    \/ TailLoopSteps
    \/ MonitorProcesses
    \/ StopMonitoringSteps

SpecScan == InitScan /\ [][NextScan]_vars

\* the scan loop with one process to find, the scan thread never starved
InitScanLoop ==
    /\ InitMonitor
    /\ pcMain = "m_start"
    /\ log = <<>>
    /\ oldlog = <<>>
    /\ logExists = TRUE
    /\ env = [NoEnv EXCEPT !.pids = {10}, !.maxScans = MaxScans, !.scanFails = TRUE,
                           !.faulty = TRUE, !.stopper = TRUE]

SpecScanFair == InitScanLoop /\ [][NextScan]_vars /\ WF_vars(MonitorProcesses)

-----------------------------------------------------------------------------
(* The tail loop beside the scan loop, every += of the main thread in two steps *)

InitRace ==
    /\ InitMonitor
    /\ pcMain = "m_start"
    /\ log = <<>>
    /\ oldlog = <<>>
    /\ logExists = TRUE
    /\ env = [NoEnv EXCEPT !.kinds = {"error", "plain"}, !.maxIds = MaxLines,
                           !.pids = {10}, !.maxScans = MaxScans, !.split = TRUE]

NextRace ==
    \/ TailLoopSteps
    \/ ProcessLogLine
    \/ WriteLine
    \/ MonitorProcesses

SpecRace == InitRace /\ [][NextRace]_vars

-----------------------------------------------------------------------------
(* The parser alone: parse_line applied to one line *)

ParseTokens ==
    {Ts(1), Br("ERROR"), Br("error"), Br("renderer"), Wd("failed"), Wd("ready"), Ws}

\* the lines of at most MaxTokens tokens
ParseInputs == UNION {[1..n -> ParseTokens] : n \in 0..MaxTokens}

InitParse ==
    /\ InitRest
    /\ stats = ZeroStats
    /\ recent_entries = <<>>
    /\ error_buffer = <<>>
    /\ errors_file = <<>>
    /\ monitor_log = <<>>
    /\ entry = NoEntry
    /\ acc = NoAcc
    /\ nextId = 0
    /\ log = <<>>
    /\ oldlog = <<>>
    /\ logExists = FALSE
    /\ env = [NoEnv EXCEPT !.caller = "harness"]
    /\ pcMain = "idle"
    /\ line \in ParseInputs

\* line 283 alone: entry = self.parser.parse_line(line)
ParseLine ==
    /\ pcMain = "idle"
    /\ entry' = parse_line(line)
    /\ pcMain' = "parsed"
    /\ UNCHANGED <<running, aggVars, tailVars, line, acc, sig, scanVars, saveVars, env, lock, earlier,
                   nextId, h>>

SpecParse == InitParse /\ [][ParseLine]_vars

-----------------------------------------------------------------------------
(* The stats document read by another process while the monitor runs *)

InitShow ==
    /\ InitMonitor
    /\ pcMain = "m_start"
    /\ log = <<>>
    /\ oldlog = <<>>
    /\ logExists = TRUE
    /\ env = [NoEnv EXCEPT !.kinds = {"error"}, !.maxIds = MaxLines, !.maxSaves = MaxSaves,
                           !.faulty = TRUE]

NextShow ==
    \/ TailLoopSteps
    \/ ProcessLogLine
    \/ WriteLine
    \/ SaveStatsPeriodically
    \/ ShowStats

SpecShow == InitShow /\ [][NextShow]_vars

-----------------------------------------------------------------------------
(* The three loops stopped by stop_monitoring or by a signal, no thread starved.
   In each run one of the loops has work to do: lines to process, scans to
   make, or wakes from the sleep of the stats loop. *)

InitStop ==
    /\ InitMonitor
    /\ pcMain = "m_start"
    /\ log = <<>>
    /\ oldlog = <<>>
    /\ logExists = TRUE
    /\ \E byThread \in BOOLEAN, busy \in {"tail", "scan", "stats"} :
          env = [NoEnv EXCEPT !.kinds = {"error"}, !.pids = {10},
                              !.maxIds = IF busy = "tail" THEN MaxStopped ELSE 0,
                              !.maxScans = IF busy = "scan" THEN MaxStopped ELSE 0,
                              !.maxSaves = IF busy = "stats" THEN MaxStopped ELSE 0,
                              !.stopper = byThread, !.signals = ~byThread]

NextStop ==
    \/ MainThread
    \/ WriteLine
    \/ MonitorProcesses
    \/ SaveStatsPeriodically
    \/ StopMonitoringSteps
    \/ SignalSteps

\* the main thread, with the handler that runs in it, and the two daemon
\* threads each run whenever they can
SpecStop ==
    /\ InitStop /\ [][NextStop]_vars
    /\ WF_vars(MainThread)
    /\ WF_vars(SignalSnap \/ SignalWrite)
    /\ WF_vars(MonitorProcesses)
    /\ WF_vars(SaveStatsPeriodically)

-----------------------------------------------------------------------------
(* The shutdown by a signal: the tail loop, a signal, writes that may raise *)

InitSignal ==
    /\ InitMonitor
    /\ pcMain = "m_start"
    /\ log = <<>>
    /\ oldlog = <<>>
    /\ logExists = TRUE
    /\ env = [NoEnv EXCEPT !.kinds = {"error", "plain"}, !.maxIds = MaxLines,
                           !.faulty = TRUE, !.signals = TRUE]

NextSignal ==
    \/ TailLoopSteps
    \/ ProcessLogLine
    \/ WriteLine
    \/ SignalSteps

SpecSignal == InitSignal /\ [][NextSignal]_vars

-----------------------------------------------------------------------------
(* The persistence of the counters: the tail loop, the stats loop with writes
   that may raise, and a thread that calls stop_monitoring *)

InitSave ==
    /\ InitMonitor
    /\ pcMain = "m_start"
    /\ log = <<>>
    /\ oldlog = <<>>
    /\ logExists = TRUE
    /\ env = [NoEnv EXCEPT !.kinds = {"error"}, !.maxIds = MaxLines, !.maxSaves = MaxSaves,
                           !.faulty = TRUE, !.stopper = TRUE]

NextSave ==
    \/ TailLoopSteps
    \/ ProcessLogLine
    \/ WriteLine
    \/ SaveStatsPeriodically
    \/ StopMonitoringSteps

SpecSave == InitSave /\ [][NextSave]_vars

-----------------------------------------------------------------------------
(* The tailer alone: the tail loop, the producer, truncation and rotation *)

InitTail ==
    /\ InitMonitor
    /\ pcMain = "m_start"
    /\ log = <<>>
    /\ oldlog = <<>>
    /\ logExists \in BOOLEAN
    /\ env = [NoEnv EXCEPT !.kinds = {"error"}, !.maxIds = MaxChunks,
                           !.partial = TRUE, !.rotation = TRUE, !.creation = TRUE,
                           !.signals = TRUE]

NextTail ==
    \/ MainThread
    \/ WriteLine
    \/ WritePart
    \/ Truncate
    \/ Rotate
    \/ CreateLog
    \/ SignalSteps

\* the main thread is never starved: it runs whenever it can
TailSpec == InitTail /\ [][NextTail]_vars /\ WF_vars(MainThread)

-----------------------------------------------------------------------------
(* The counters *)

RECURSIVE SumOver(_, _)
SumOver(f, S) ==
    IF S = {} THEN 0
    ELSE LET x == CHOOSE y \in S : TRUE IN f[x] + SumOver(f, S \ {x})

\* the sum of all the level_* counters of a counter table
SumLevels(s) == SumOver(s.level, DOMAIN s.level)

\* C3: whenever _process_log_line has completed for every line handed to it
\* (the main thread is between two lines), total_lines equals the sum of the
\* level_* counters.
C3_TotalIsSumOfLevels ==
    BetweenLines => stats.total_lines = SumLevels(stats)

C3_Witness ==
    /\ BetweenLines
    /\ stats.total_lines = 2
    /\ stats.level["INFO"] = 1
    /\ stats.level["ERROR"] = 1

\* C4: every stats document written to stats.json, by the stats loop, by
\* stop_monitoring in a thread of its own or by the signal handler, has
\* total_lines equal to the sum of its level_* counters.
C4_SavedStatsConsistent ==
    stats_file.state = "written" =>
        stats_file.doc.total_lines = SumLevels(stats_file.doc)

\* what the line processed last started from
Pre == h.pre[1]

ErrorEffects(withRecord) ==
    /\ stats.total_errors = Pre.stats.total_errors + 1
    /\ error_buffer = Append(Pre.error_buffer, entry)
    /\ errors_file = IF withRecord THEN Append(Pre.errors_file, entry) ELSE Pre.errors_file

NoErrorEffects ==
    /\ stats.total_errors = Pre.stats.total_errors
    /\ error_buffer = Pre.error_buffer
    /\ errors_file = Pre.errors_file

\* C7 as claimed: once a non-empty line is processed, if its entry's level is
\* ERROR or FATAL or its has_error flag is set then total_errors is one more
\* than before the line, error_buffer has received the entry and errors.json
\* exactly one record, that of the entry; otherwise none of the three changed.
C7_ErrorEffectsAlways ==
    (BetweenLines /\ h.pre # <<>>) =>
        IF entry.level \in {"ERROR", "FATAL"} \/ entry.has_error
        THEN ErrorEffects(TRUE)
        ELSE NoErrorEffects

\* C7 as amended: the same, but errors.json receives the record only when the
\* append to it does not raise; when it raises, errors.json is left as it was
\* while total_errors and error_buffer keep their change.
C7_ErrorEffectsUnlessWriteRaises ==
    (BetweenLines /\ h.pre # <<>>) =>
        IF entry.level \in {"ERROR", "FATAL"} \/ entry.has_error
        THEN ErrorEffects("errors_file" \notin h.failed)
        ELSE NoErrorEffects

C7_Witness ==
    /\ BetweenLines
    /\ h.pre # <<>>
    /\ entry.has_error /\ entry.level = "INFO"
    /\ "errors_file" \notin h.failed
    /\ Pre.stats.total_errors = 1
    /\ stats.total_errors = 2
    /\ Len(errors_file) = 2
    /\ errors_file[1].level = "FATAL"

-----------------------------------------------------------------------------
(* The process table *)

RECURSIVE Successful(_)
\* the pids of the successful scans, in order
Successful(scans) ==
    IF scans = <<>> THEN <<>>
    ELSE IF Last(scans).ok
         THEN Append(Successful(SubSeq(scans, 1, Len(scans) - 1)), Last(scans).pids)
         ELSE Successful(SubSeq(scans, 1, Len(scans) - 1))

Keys(table) == {p \in DOMAIN table : table[p] # "absent"}

\* C5: a pid found by a successful scan and not by the next successful scan is
\* still a key of the retained table after it, with status 'terminated'.
C5_AbsentPidTerminated ==
    LET ok == Successful(h.scans)
        n == Len(ok)
    IN n >= 2 =>
          \A p \in ok[n - 1] \ ok[n] :
              /\ p \in Keys(processes)
              /\ processes[p] = "terminated"

C5_Witness ==
    /\ h.scans = <<Found({10}), Found({})>>
    /\ Keys(processes) = {10}
    /\ processes[10] = "terminated"

\* C22: after a successful scan every pid it found is a key of the retained
\* table with status 'running', whatever its status was before (no key,
\* 'running' or 'terminated'), and the list scan_processes returned holds
\* exactly the pids the scan found.
C22_FoundPidRunning ==
    LET ok == Successful(h.scans)
        n == Len(ok)
    IN /\ n >= 1 => \A p \in ok[n] : p \in Keys(processes) /\ processes[p] = "running"
       /\ (pcScan = "s_active" /\ Last(h.scans).ok) => scanned = Last(h.scans).pids

C22_Witness ==
    /\ pcScan = "s_active"
    /\ h.scans = <<Found({10}), Found({}), Found({10, 11})>>
    /\ h.tableBefore[1][10] = "terminated"
    /\ h.tableBefore[1][11] = "absent"
    /\ processes[10] = "running"
    /\ processes[11] = "running"
    /\ scanned = {10, 11}

\* C32: when the enumeration of a scan raises, the retained table after
\* scan_processes is the table before it: no key added, none removed, no
\* status changed.
C32_FailedScanKeepsTable ==
    (pcScan = "s_active" /\ ~Last(h.scans).ok) => processes = h.tableBefore[1]

C32_Witness ==
    /\ pcScan = "s_active"
    /\ h.scans = <<Found({10, 11}), Found({11}), Failed>>
    /\ processes[10] = "terminated"
    /\ processes[11] = "running"

\* C33: when the enumeration of a scan raises, scan_processes returns the
\* empty list and the scan loop goes on as after a scan that found nothing:
\* it stores 0 in active_processes and the document it writes is the empty
\* list, while the retained table is the one from before the scan, 'running'
\* entries included.
C33_FailedScanCountsNone ==
    (h.scans # <<>> /\ ~Last(h.scans).ok) =>
        /\ pcScan = "s_active" => scanned = {}
        /\ pcScan = "s_write" => stats.active_processes = 0
        /\ (process_file.state = "written" /\ h.docScans = Len(h.scans)) =>
               process_file.doc = {}
        /\ processes = h.tableBefore[1]

C33_Witness ==
    /\ pcScan = "s_loop"
    /\ h.scans = <<Found({10}), Failed>>
    /\ h.docScans = 2
    /\ process_file = Written({})
    /\ stats.active_processes = 0
    /\ processes[10] = "running"

\* C34: no step removes a key from the retained table, and a 'terminated'
\* entry changes only in a successful scan that finds its pid again.
C34_TableNeverShrinks ==
    [][/\ Keys(processes) \subseteq Keys(processes')
       /\ \A p \in Pids :
             (processes[p] = "terminated" /\ processes'[p] # "terminated") =>
                 /\ Len(h'.scans) = Len(h.scans) + 1
                 /\ Last(h'.scans).ok
                 /\ p \in Last(h'.scans).pids]_vars

C34_Witness ==
    /\ h.scans = <<Found({10}), Found({}), Found({11})>>
    /\ Keys(processes) = {10, 11}
    /\ processes[10] = "terminated"
    /\ processes[11] = "running"

\* C6: the process document the scan loop has written after a scan holds every
\* pid of the retained table, the 'terminated' ones included.
C6_DocumentHoldsTable ==
    (process_file.state = "written" /\ h.docScans = Len(h.scans)) =>
        Keys(processes) \subseteq process_file.doc

-----------------------------------------------------------------------------
(* The tailer *)

ChunkIds == 1..(MaxChunks + 1)

Delivered(id) == \E i \in 1..Len(h.delivered) : id \in h.delivered[i]

\* the tail loop has ended, or was told to
TailEnded == pcMain = "returned" \/ Exited \/ ~running

\* C8: no chunk of the file is handed to _process_log_line twice: no two
\* deliveries share a chunk.
C8_NoRedelivery ==
    \A i, j \in 1..Len(h.delivered) :
        i # j => h.delivered[i] \cap h.delivered[j] = {}

C8_Witness ==
    /\ Len(h.delivered) = 2
    /\ h.changedAt > 0
    /\ h.delivered[2] # {}
    /\ \A id \in h.delivered[2] : id > h.changedAt

\* C9: nothing that was in the file when the tailer opened it is ever
\* delivered, and whatever is appended afterwards is eventually delivered,
\* unless the tail loop ends or the file is truncated or rotated.
C9_TailsFromEnd ==
    /\ [](\A id \in h.atOpen : ~Delivered(id))
    /\ \A id \in ChunkIds :
          (fd = "cur" /\ id \in Ids(log) /\ id \notin h.atOpen)
              ~> (Delivered(id) \/ TailEnded \/ h.changedAt >= 0)

C9_Witness ==
    /\ h.atOpen = {1}
    /\ h.changedAt < 0
    /\ Delivered(2)
    /\ Delivered(3)
    /\ running

\* C10: whatever is written to the file after a truncation or rotation, while
\* the tailer holds the file open, is eventually delivered unless the tail
\* loop ends.
C10_RotationRecovered ==
    \A id \in ChunkIds :
        (fd # "closed" /\ h.changedAt >= 0 /\ id > h.changedAt /\ id \in Ids(log))
            ~> (Delivered(id) \/ TailEnded)

-----------------------------------------------------------------------------
(* The order of processing *)

\* the first chunk of the i-th line handed to _process_log_line
FirstOf(i) == Min(h.delivered[i])

-----------------------------------------------------------------------------
(* Stopping and the persistence of the counters *)

\* the counters of the lines in a counter table
LineCounters(s) == [s EXCEPT !.active_processes = 0]

\* C12: once stop_monitoring has returned after writing its document, that
\* document stays the content of stats.json (no loop writes the file again)
\* and its line counters are those of the monitor (no further line is counted).
C12_StopDocumentIsFinal ==
    (pcStop = "done" /\ h.stopDoc # <<>>) =>
        /\ stats_file = Written(h.stopDoc[1])
        /\ LineCounters(stats) = LineCounters(h.stopDoc[1])

\* start_monitoring has ended: _monitor_logs returned, or sys.exit ended it
StartMonitoringEnded == pcMain = "returned" \/ Exited

\* C13 as claimed: start_monitoring ends only after the running flag was
\* cleared by stop_monitoring (called by a thread or by the signal handler).
C13_ReturnsOnlyWhenStopped == StartMonitoringEnded => ~running

\* C13 as amended: start_monitoring ends only after the running flag was
\* cleared, or at once when the log file is not at its path at the start; it
\* leaves the tail loop only with the flag cleared.
C13_ReturnsWhenStoppedOrNotFound ==
    /\ StartMonitoringEnded => (~running \/ h.missing)
    /\ (pcMain = "returned" /\ ~h.missing) => ~running

C13_Witness ==
    /\ pcMain = "returned"
    /\ ~h.missing
    /\ ~running
    /\ sig = "none"
    /\ Len(h.delivered) = 1

\* C14: a write of stats.json that raises in the stats loop does not end the
\* loop: the stats thread never ends by an exception.
C14_StatsLoopSurvives == pcStats # "dead"

-----------------------------------------------------------------------------
(* The counters over the whole run *)

\* no counter of the lines is lower in table t than in table s
NotLowered(s, t) ==
    /\ t.total_lines >= s.total_lines
    /\ t.total_errors >= s.total_errors
    /\ \A l \in DOMAIN s.level : t.level[l] >= s.level[l]
    /\ \A c \in DOMAIN s.component : t.component[c] >= s.component[c]

\* C18: no step of the monitor lowers total_lines, total_errors, a level_* or
\* a component_* counter; and once an iteration of the scan loop has stored
\* active_processes, it is the number of processes the latest scan returned.
C18_CountersMonotone ==
    /\ [][NotLowered(stats, stats')]_vars
    /\ [](pcScan = "s_write" =>
             stats.active_processes = Cardinality(Last(h.scans).pids))

C18_Witness ==
    /\ pcScan = "s_write"
    /\ h.scans = <<Found({10}), Found({})>>
    /\ stats.active_processes = 0
    /\ stats.total_lines = 2
    /\ stats.total_errors = 1

-----------------------------------------------------------------------------
(* What one line does to the counters *)

\* the counters s after the increments of a line whose entry is e
LineCounted(s, e) ==
    [s EXCEPT !.total_lines = @ + 1,
              !.level[e.level] = @ + 1,
              !.component[e.component] = @ + 1,
              !.total_errors = IF IsErrorEntry(e) THEN @ + 1 ELSE @]

\* C29: once a non-empty line is processed, total_lines, the level_* counter
\* of the entry's level and the component_* counter of its component are one
\* more than before the line, total_errors is one more if the entry is an
\* error and every other line counter is as before; and no step of the main
\* thread changes active_processes.
C29_LineIncrements ==
    /\ []((BetweenLines /\ h.pre # <<>>) =>
             LineCounters(stats) = LineCounters(LineCounted(Pre.stats, entry)))
    /\ [][pcMain' # pcMain => stats'.active_processes = stats.active_processes]_vars

C29_Witness ==
    /\ BetweenLines
    /\ h.pre # <<>>
    /\ Pre.stats.total_lines = 1
    /\ Pre.stats.active_processes = 0
    /\ stats.active_processes = 1
    /\ IsErrorEntry(entry)
    /\ stats.total_errors = Pre.stats.total_errors + 1
    /\ stats.component[entry.component] = 2

\* C37: total_errors never exceeds total_lines, in the middle of a line and
\* whatever the other threads are doing.
C37_ErrorsAtMostLines ==
    stats.total_errors <= stats.total_lines

C37_Witness ==
    /\ pcMain = "p_logerr"
    /\ pcScan = "s_write"
    /\ stats.total_errors = 2
    /\ stats.total_lines = 2

\* C38: _process_log_line called with a line that is empty once stripped
\* returns at once: no entry is made and no counter, buffer or output file
\* changes.
C38_EmptyLineSkipped ==
    [][(pcMain = "p_enter" /\ line = <<>> /\ pcMain' # pcMain) =>
          /\ pcMain' = Ret
          /\ UNCHANGED <<entry, stats, recent_entries, error_buffer, errors_file,
                         monitor_log, stats_file, process_file>>]_vars

C38_Witness ==
    /\ pcMain = "m_loop"
    /\ Len(h.delivered) = 2
    /\ h.delivered[2] = {2}
    /\ line = <<>>
    /\ entry.timestamp = 1
    /\ stats.total_lines = 1
    /\ Len(monitor_log) = 1

-----------------------------------------------------------------------------
(* start_monitoring called again after stop_monitoring *)

\* lines 240-250, once start_monitoring has returned and stop_monitoring is
\* over: the flag is set again and two new threads are started; the loops of
\* the first call, asleep or ended, are where they were
StartAgain ==
    /\ pcMain = "returned" /\ env.restarts /\ MainRuns
    /\ pcStop = "done"
    /\ earlier = NoLoops
    /\ pcScan \in {"s_loop", "done"}
    /\ pcStats \in {"t_loop", "t_snap", "done", "dead"}
    /\ running' = TRUE
    /\ earlier' = [scan |-> pcScan, stats |-> pcStats]
    /\ pcScan' = "s_loop"
    /\ pcStats' = "t_loop"
    /\ pcMain' = "m_open"
    /\ UNCHANGED <<aggVars, tailVars, lineVars, sig, scanned, processes, process_file,
                   pcStop, snap, stats_file, env, lock, nextId, h>>

\* line 310 in a scan loop of the first call
EarlierScanLoop ==
    /\ earlier.scan = "s_loop" /\ Alive
    /\ earlier' = [earlier EXCEPT !.scan = IF KeepScanning(running) THEN "s_scan" ELSE "done"]
    /\ UNCHANGED <<running, aggVars, tailVars, pcMain, lineVars, sig, scanVars, saveVars,
                   env, lock, nextId, h>>

\* lines 311-323 in a scan loop of the first call: one iteration, then the sleep
EarlierScanIteration ==
    /\ earlier.scan = "s_scan" /\ Alive
    /\ Len(h.scans) < env.maxScans
    /\ \E res \in {Found(f) : f \in SUBSET env.pids}, o \in Rewrites :
          /\ processes' = TableAfter(processes, res.pids)
          /\ stats' = ActiveStored(stats, Cardinality(res.pids))
          /\ process_file' = Rewritten(process_file, ProcessDocument(res.pids, processes'),
                                       o, {})
          /\ h' = [h EXCEPT !.scans = Append(@, res), !.tableBefore = <<processes>>]
    /\ earlier' = [earlier EXCEPT !.scan = "s_loop"]
    /\ UNCHANGED <<running, recent_entries, error_buffer, errors_file, monitor_log,
                   tailVars, pcMain, lineVars, sig, pcScan, scanned, saveVars, env, lock,
                   nextId>>

\* line 355 in a stats loop of the first call
EarlierStatsLoop ==
    /\ earlier.stats = "t_loop" /\ Alive
    /\ earlier' = [earlier EXCEPT !.stats = IF running THEN "t_snap" ELSE "done"]
    /\ UNCHANGED <<running, aggVars, tailVars, pcMain, lineVars, sig, scanVars, saveVars,
                   env, lock, nextId, h>>

\* lines 356-357 in a stats loop of the first call: it wakes and flushes
EarlierStatsFlush ==
    /\ earlier.stats = "t_snap" /\ Alive
    /\ h.saves < env.maxSaves
    /\ \E o \in Rewrites :
          /\ stats_file' = Rewritten(stats_file, Snapshot(stats), o, ZeroStats)
          /\ earlier' = [earlier EXCEPT !.stats = AfterStatsWrite(o)]
    /\ h' = [h EXCEPT !.saves = @ + 1]
    /\ UNCHANGED <<running, aggVars, tailVars, pcMain, lineVars, sig, scanVars, pcStats,
                   pcStop, snap, env, lock, nextId>>

EarlierLoops ==
    EarlierScanLoop \/ EarlierScanIteration \/ EarlierStatsLoop \/ EarlierStatsFlush

InitRestart ==
    /\ InitMonitor
    /\ pcMain = "m_start"
    /\ log = <<>>
    /\ oldlog = <<>>
    /\ logExists = TRUE
    /\ env = [NoEnv EXCEPT !.pids = {10}, !.maxScans = MaxScans, !.maxSaves = MaxSaves,
                           !.stopper = TRUE, !.restarts = TRUE]

NextRestart ==
    \/ TailLoopSteps
    \/ MonitorProcesses
    \/ SaveStatsPeriodically
    \/ StopMonitoringSteps
    \/ StartAgain
    \/ EarlierLoops

SpecRestart == InitRestart /\ [][NextRestart]_vars

\* a loop that was started and has not ended
Live(pc) == pc \notin {"unstarted", "done", "dead"}

\* C35: at most one scan loop and at most one stats loop is alive at any
\* time, also after start_monitoring, stop_monitoring and start_monitoring
\* again.
C35_OneLoopOfEachKind ==
    Alive =>
        /\ ~(Live(pcScan) /\ Live(earlier.scan))
        /\ ~(Live(pcStats) /\ Live(earlier.stats))

-----------------------------------------------------------------------------
(* The lock of the process table *)

\* the three loops side by side, the scan taking its lock; the enumeration
\* may fail and may hang; no thread is starved.  In each run either the tail
\* loop has lines to process or the stats loop wakes from its sleep.
InitLock ==
    /\ InitMonitor
    /\ pcMain = "m_start"
    /\ log = <<>>
    /\ oldlog = <<>>
    /\ logExists = TRUE
    /\ \E busy \in {"tail", "stats"} :
          env = [NoEnv EXCEPT !.kinds = {"error"}, !.pids = {10}, !.maxScans = MaxHeld,
                              !.maxIds = IF busy = "tail" THEN MaxHeld ELSE 0,
                              !.maxSaves = IF busy = "stats" THEN MaxHeld ELSE 0,
                              !.scanFails = TRUE, !.hangs = TRUE]

NextLock ==
    \/ MainThread
    \/ WriteLine
    \/ MonitorProcessesLocking
    \/ SaveStatsPeriodically

SpecLock ==
    /\ InitLock /\ [][NextLock]_vars
    /\ WF_vars(MainThread) /\ WF_vars(MonitorProcessesLocking)
    /\ WF_vars(SaveStatsPeriodically)

\* C31: the lock is held only by the scan thread and only while it updates the
\* table (not during the enumeration, the sleep or a file write); the scan
\* thread never has to wait for it and acquires it only when it is free; no
\* step of another thread changes it; and with the enumeration hung, a line
\* handed to _process_log_line is still processed and a stats flush still
\* completes, while a scan that did return goes on to store its count.
C31_LockNeverBlocks ==
    /\ [](lock # "free" => (lock = "scan" /\ pcScan = "s_update"))
    /\ [](pcScan = "s_acquire" => lock = "free")
    /\ [][lock' # lock => (pcScan' # pcScan /\ (lock = "free" \/ lock' = "free"))]_vars
    /\ (pcScan = "s_hung" /\ pcMain = "p_enter") ~> BetweenLines
    /\ (pcScan = "s_hung" /\ pcStats = "t_write") ~> (pcStats = "t_loop")
    /\ (pcScan = "s_acquire") ~> (pcScan = "s_active")

C31_Witness ==
    /\ pcScan = "s_hung"
    /\ lock = "free"
    /\ pcMain = "m_loop"
    /\ stats.total_lines = MaxHeld
    /\ h.scans = <<Found({10})>>
    /\ processes[10] = "running"

-----------------------------------------------------------------------------
(* The monitor log *)

\* C30 as claimed: whenever the main thread is between two lines, monitor.log
\* has as many records as total_lines counts.
C30_OneRecordPerLine ==
    BetweenLines => Len(monitor_log) = stats.total_lines

\* C30 as amended: a processed line appends its record to monitor.log, after
\* the records of the lines before it, unless the append to errors.json or to
\* monitor.log raised while the line was processed, and then monitor.log is
\* left as it was; monitor.log never has more records than total_lines counts,
\* and in a run where no write raises it has exactly one per line, in
\* delivery order.
C30_OneRecordUnlessWriteRaises ==
    /\ (BetweenLines /\ h.pre # <<>>) =>
          monitor_log = IF h.failed = {}
                        THEN Append(Pre.monitor_log, MonitorRecord(entry))
                        ELSE Pre.monitor_log
    /\ Len(monitor_log) <= stats.total_lines
    /\ (BetweenLines /\ ~env.faulty) =>
          /\ Len(monitor_log) = stats.total_lines
          /\ \A i \in 1..Len(monitor_log) :
                 monitor_log[i] = MonitorRecord(recent_entries[i])

C30_Witness ==
    /\ BetweenLines
    /\ h.pre # <<>>
    /\ h.failed = {"errors_file"}
    /\ stats.total_lines = 2
    /\ Len(Pre.monitor_log) = 1
    /\ monitor_log = Pre.monitor_log

\* C39: when the append to errors.json raised while a line was processed, the
\* line is counted all the same (total_lines, the counters of its level and
\* component, total_errors) and its entry is in recent_entries and in
\* error_buffer, but errors.json and monitor.log are as before the line.
C39_FailedErrorAppendStillCounted ==
    (BetweenLines /\ h.pre # <<>> /\ "errors_file" \in h.failed) =>
        /\ IsErrorEntry(entry)
        /\ LineCounters(stats) = LineCounters(LineCounted(Pre.stats, entry))
        /\ stats.total_errors = Pre.stats.total_errors + 1
        /\ recent_entries = Append(Pre.recent_entries, entry)
        /\ error_buffer = Append(Pre.error_buffer, entry)
        /\ errors_file = Pre.errors_file
        /\ monitor_log = Pre.monitor_log

\* total_errors exceeds the records of errors.json, total_lines those of
\* monitor.log
C39_Witness ==
    /\ BetweenLines
    /\ h.pre # <<>>
    /\ "errors_file" \in h.failed
    /\ entry.level = "FATAL"
    /\ stats.total_errors = 2
    /\ Len(errors_file) = 1
    /\ stats.total_lines = 2
    /\ Len(monitor_log) = 1

-----------------------------------------------------------------------------
(* A flush while a line is being counted *)

\* the number of elements of q that satisfy P
CountOf(q, P(_)) == Cardinality({i \in 1..Len(q) : P(q[i])})

\* the line counters after the updates of the first k processed lines
AfterLines(k) ==
    LET first == SubSeq(recent_entries, 1, k)
    IN [total_lines      |-> k,
        total_errors     |-> CountOf(first, IsErrorEntry),
        active_processes |-> 0,
        level            |-> [l \in LevelKeys |->
                                 LET Is(e) == e.level = l IN CountOf(first, Is)],
        component        |-> [c \in Components |->
                                 LET Is(e) == e.component = c IN CountOf(first, Is)]]

\* every line counter of s lies between its values in lo and in hi
Between(lo, s, hi) ==
    /\ s.total_lines \in lo.total_lines..hi.total_lines
    /\ s.total_errors \in lo.total_errors..hi.total_errors
    /\ \A l \in LevelKeys : s.level[l] \in lo.level[l]..hi.level[l]
    /\ \A c \in Components : s.component[c] \in lo.component[c]..hi.component[c]

\* s is the table after some whole number of lines, or has some of the
\* increments of the one line after them and nothing else
WithinOneLine(s) ==
    \E k \in 0..Len(recent_entries) :
        Between(AfterLines(k), s,
                IF k < Len(recent_entries) THEN AfterLines(k + 1) ELSE AfterLines(k))

\* lines counted while the stats loop and stop_monitoring flush; no write fails
InitFlush ==
    /\ InitMonitor
    /\ pcMain = "m_start"
    /\ log = <<>>
    /\ oldlog = <<>>
    /\ logExists = TRUE
    /\ env = [NoEnv EXCEPT !.kinds = {"error"}, !.maxIds = MaxLines, !.maxSaves = MaxSaves,
                           !.stopper = TRUE]

NextFlush ==
    \/ TailLoopSteps
    \/ ProcessLogLine
    \/ WriteLine
    \/ SaveStatsPeriodically
    \/ StopMonitoringSteps

SpecFlush == InitFlush /\ [][NextFlush]_vars

\* C28: the counters a flush captures, whichever thread flushes and wherever
\* the tail loop is in a line, differ from the table after a whole number of
\* lines by at most the increments of one line.
C28_FlushStaleByOneLine ==
    \A t \in Threads : WithinOneLine(snap[t])

C28_Witness ==
    /\ pcStats = "t_write"
    /\ pcMain = "p_level"
    /\ stats.total_lines = 2
    /\ snap["stats"].total_lines = 2
    /\ snap["stats"].level["ERROR"] = 1

-----------------------------------------------------------------------------
(* Lines written in pieces *)

\* C27: the tailer hands a line to _process_log_line only when a full line is
\* available: the text readline returned ends with the newline of the line, so
\* a line written in two pieces is delivered once, as one entry.
C27_OnlyWholeLinesDelivered ==
    [][(pcMain = "m_read" /\ pcMain' = "p_enter")
          => Opened[ReadEnd(Opened, pos)].nl]_vars

-----------------------------------------------------------------------------
(* The end of the loops *)

\* stop_monitoring has cleared the running flag
Cleared == ~running /\ (pcStop # "idle" \/ sig # "none")

\* a loop that tests the cleared flag leaves: it starts no new iteration
LeavesOnClearedFlag ==
    /\ (pcMain = "m_loop" /\ ~running /\ pcMain' # pcMain) => pcMain' = "returned"
    /\ (pcScan = "s_loop" /\ ~running /\ pcScan' # pcScan) => pcScan' = "done"
    /\ (pcStats = "t_loop" /\ ~running /\ pcStats' # pcStats) => pcStats' = "done"

\* C26: once the running flag is cleared, a loop that tests it starts no new
\* iteration, and with no thread starved the tail loop ends (start_monitoring
\* returns, or the handler ends the process) and the scan and stats threads
\* end, by their own test of the flag or with the process.
C26_LoopsExitWhenCleared ==
    /\ [][LeavesOnClearedFlag]_vars
    /\ Cleared ~> (/\ pcMain = "returned" \/ Exited
                   /\ pcScan = "done" \/ ~Alive
                   /\ pcStats \in {"done", "dead"} \/ ~Alive)

C26_Witness ==
    /\ ~running
    /\ pcStop = "done"
    /\ pcMain = "m_loop"
    /\ pcScan = "done"
    /\ pcStats = "done"

-----------------------------------------------------------------------------
(* The stats request *)

\* C25: a --stats request made when stats.json was never written gives the
\* 'not available' outcome, and one made when it was written gives a whole
\* document: no request ends otherwise.
C25_StatsShownOrNotAvailable ==
    h.shown.kind # "none" =>
        IF h.shown.file = "absent"
        THEN h.shown.kind = "not_available"
        ELSE h.shown.kind = "document"

-----------------------------------------------------------------------------
(* The parser *)

\* the texts of the bracketed groups of a line
Bracketed(s) == {s[i].c : i \in Matches(s, IsBracket)}

\* C23: parse_line gives every line an entry: its timestamp is a time (the
\* time of parsing when the line has none), its level is that of the first
\* bracketed level and INFO when the line has none, its component is that of
\* a bracketed group and 'unknown' when the line has none, and its message is
\* a text of the line's tokens.
C23_ParserTotal ==
    pcMain = "parsed" =>
        /\ entry.timestamp \in Nat
        /\ Matches(line, IsTimestamp) = {} => entry.timestamp = Now
        /\ entry.level \in LevelKeys
        /\ Matches(line, IsLevel) = {} => entry.level = "INFO"
        /\ entry.component \in Bracketed(line) \cup {"unknown"}
        /\ Matches(line, IsBracket) = {} => entry.component = "unknown"
        /\ \A i \in 1..Len(entry.message) : \E j \in 1..Len(line) : entry.message[i] = line[j]
        /\ entry.has_error \in BOOLEAN

C23_Witness ==
    /\ pcMain = "parsed"
    /\ line = <<Ws, Wd("ready"), Ws>>
    /\ entry.timestamp = Now
    /\ entry.level = "INFO"
    /\ entry.component = "unknown"
    /\ entry.message = <<Wd("ready")>>

\* a line made of a timestamp, a bracketed level, a bracketed component that
\* is not a level, and a word
WellFormed(s) ==
    /\ Len(s) = 4
    /\ IsTimestamp(s[1])
    /\ IsLevel(s[2])
    /\ IsBracket(s[3]) /\ ~IsLevel(s[3])
    /\ s[4].t = "wd"

\* C24: for a line made of a timestamp, a bracketed level, a bracketed
\* component and a word, the entry's level is the bracketed level, its
\* component is the bracketed component, and its message holds no bracketed
\* group of the line.
C24_BracketedFieldsParsed ==
    (pcMain = "parsed" /\ WellFormed(line)) =>
        /\ entry.level = line[2].c
        /\ entry.component = line[3].c
        /\ \A i \in 1..Len(entry.message) : ~IsBracket(entry.message[i])

-----------------------------------------------------------------------------
(* The shutdown by a signal *)

\* the handler has cleared the flag and written the counters to stats.json
FlushedAtExit ==
    /\ ~running
    /\ stats_file = Written(snap["signal"])
    /\ LineCounters(stats_file.doc) = LineCounters(stats)

\* C21: a signal ends the process only by the exit with status 0,
\* and only after the handler has cleared the running flag and written the
\* counters to stats.json as a whole document.
C21_SignalFlushesThenExits ==
    Exited => (sig = "exited" /\ FlushedAtExit)

-----------------------------------------------------------------------------
(* The updates of the counters by two threads *)

\* the counters after the updates of the processed lines, one after another
LinesApplied ==
    [total_lines  |-> Len(recent_entries),
     total_errors |-> Len(h.errs),
     level        |-> [l \in LevelKeys |->
                          LET Is(e) == e.level = l IN CountOf(recent_entries, Is)],
     component    |-> [c \in Components |->
                          LET Is(e) == e.component = c IN CountOf(recent_entries, Is)]]

\* the number of scans whose count the scan loop has stored
ScansStored == IF pcScan = "s_active" THEN Len(h.scans) - 1 ELSE Len(h.scans)

\* active_processes after the stores of the scan loop, one after another
ActiveApplied ==
    IF ScansStored = 0 THEN 0 ELSE Cardinality(h.scans[ScansStored].pids)

-----------------------------------------------------------------------------
(* The error file *)

\* C19: errors.json is append-only and ordered.  A step leaves it alone or adds
\* exactly one record at its end, the record of the entry _log_error was
\* called with; and its records are in the order in which the tailer delivered
\* their lines, each the record of an entry that entered error_buffer.
C19_ErrorFileAppendOnly ==
    /\ [][\/ errors_file' = errors_file
          \/ /\ pcMain = "p_logerr"
             /\ errors_file' = Append(errors_file, ErrorRecord(entry))]_vars
    /\ [](/\ \A i, j \in 1..Len(errors_file) :
                i < j => errors_file[i].timestamp < errors_file[j].timestamp
          /\ \A i \in 1..Len(errors_file) :
                \E k \in 1..Len(h.errs) : errors_file[i] = ErrorRecord(h.errs[k]))

C19_Witness ==
    /\ Len(errors_file) = 2
    /\ errors_file[1].timestamp = 1 /\ errors_file[1].level = "ERROR"
    /\ errors_file[2].timestamp = 2 /\ errors_file[2].level = "INFO"
    /\ pcMain = "p_monitor"

-----------------------------------------------------------------------------
(* A line whose processing raises *)

\* C16: an exception raised while a line is processed does not leave
\* _process_log_line: after a write of the line has raised, the main thread is
\* back in the tail loop (about to test the flag, to read, or entering the
\* next line), and it leaves the loop only with the running flag cleared.
C16_LineFailureCaught ==
    h.failed # {} =>
        \/ pcMain \in {"m_loop", "m_read", "p_enter"}
        \/ pcMain = "returned" /\ ~running

C16_Witness ==
    /\ pcMain = "m_loop"
    /\ h.failed = {}
    /\ Len(h.delivered) = 2
    /\ stats.total_lines = 2
    /\ Len(monitor_log) = 1
    /\ monitor_log[1].timestamp = 2

-----------------------------------------------------------------------------
(* The scan loop and its failures *)

\* the scan thread is in its loop, or has left it
InScanLoop == pcScan \in {"unstarted", "s_loop", "s_scan", "s_active", "s_write", "done"}

\* C15: a scan or a write of processes.json that raises does not end the scan
\* loop: the scan thread never ends by an exception, it leaves the loop only
\* with the running flag cleared, and after each write, failed or not, it goes
\* on to its next iteration unless the flag is cleared or the process ends.
C15_ScanLoopSurvives ==
    /\ [](InScanLoop /\ (pcScan = "done" => ~running))
    /\ (pcScan = "s_write") ~> (pcScan = "s_scan" \/ ~running \/ ~Alive)

C15_Witness ==
    /\ Len(h.scans) = 2
    /\ ~h.scans[1].ok
    /\ h.docScans = -1
    /\ process_file.state = "partial"
    /\ pcScan = "s_active"
    /\ running

-----------------------------------------------------------------------------
(* The missing log file *)

\* C20: when the log file is not at its path as _monitor_logs looks for it,
\* the tail loop does not start: _monitor_logs returns without opening a file,
\* no line is ever delivered and no line counter changes, whatever is written
\* to a file created at the path later.
C20_NotFoundDeliversNothing ==
    h.missing =>
        /\ pcMain = "returned"
        /\ fd = "closed"
        /\ h.delivered = <<>>
        /\ LineCounters(stats) = ZeroStats
        /\ recent_entries = <<>>

C20_Witness ==
    /\ h.missing
    /\ pcMain = "returned"
    /\ logExists
    /\ Len(log) = 2
    /\ h.delivered = <<>>

====
